---- MODULE Spec2Model ----
(***************************************************************************)
(* Formula Status Trigger: the webhook endpoint (index.js), the value      *)
(* mapper and event filter (utils.js), the remote update client            *)
(* (mondayClient.js) and the configuration (config.js).                    *)
(*                                                                         *)
(* JavaScript values are tagged records.  A number is the exact decimal    *)
(* m / 10^k, kept normalised (k = 0 or m not a multiple of 10), or NaN.    *)
(* A string is the sequence of its characters, or of longer pieces where   *)
(* the program never looks inside them (identifiers, column types).        *)
(***************************************************************************)
EXTENDS Integers, Sequences, FiniteSets, TLC

VARIABLES
    env,            \* process.env: MONDAY_SIGNING_SECRET, STATUS_COLUMN_ID
    statusMapping,  \* config.statusMapping, the ordered StatusRule list
    rateLimit,      \* config.rateLimit
    deliveries,     \* one record per POST /webhook delivery
    remote,         \* the remote API: the item's status column, change events
    probe           \* argument and result of a pure function under test

vars == <<env, statusMapping, rateLimit, deliveries, remote, probe>>

(***************************************************************************)
(* JavaScript values                                                       *)
(***************************************************************************)
Undefined == [type |-> "undefined"]
Null == [type |-> "null"]
NaN == [type |-> "number", nan |-> TRUE, m |-> 0, k |-> 0]
EmptyObject == [type |-> "object"]

Str(s) == [type |-> "string", chars |-> s]

RECURSIVE Pow(_, _)
Pow(b, e) == IF e = 0 THEN 1 ELSE b * Pow(b, e - 1)

RECURSIVE Normalize(_, _)
Normalize(m, k) ==
    IF k > 0 /\ m % 10 = 0 THEN Normalize(m \div 10, k - 1)
    ELSE [type |-> "number", nan |-> FALSE, m |-> m, k |-> k]

Dec(m, k) == Normalize(m, k)
Num(n) == Dec(n, 0)

isNaN(v) == v.type = "number" /\ v.nan

\* the relational operators of two numbers; every comparison with NaN is false
Less(a, b) == ~a.nan /\ ~b.nan /\ a.m * Pow(10, b.k) < b.m * Pow(10, a.k)
LessEq(a, b) == ~a.nan /\ ~b.nan /\ a.m * Pow(10, b.k) <= b.m * Pow(10, a.k)

\* ToBoolean
Truthy(v) ==
    CASE v.type = "undefined" -> FALSE
      [] v.type = "null" -> FALSE
      [] v.type = "boolean" -> v.b
      [] v.type = "string" -> v.chars # <<>>
      [] v.type = "number" -> ~v.nan /\ v.m # 0
      [] OTHER -> TRUE

\* a || b
Or(a, b) == IF Truthy(a) THEN a ELSE b

Min(a, b) == IF a <= b THEN a ELSE b

(***************************************************************************)
(* config.js                                                               *)
(***************************************************************************)
\* condition: (value) => value > a | value >= a && value <= b | value < a
Gt(a) == [op |-> "gt", a |-> Num(a), b |-> Num(a)]
Between(a, b) == [op |-> "between", a |-> Num(a), b |-> Num(b)]
Lt(a) == [op |-> "lt", a |-> Num(a), b |-> Num(a)]

DefaultStatusMapping ==
    << [label |-> "Done", index |-> 1, color |-> "green", condition |-> Gt(100)],
       [label |-> "Working on it", index |-> 2, color |-> "yellow",
        condition |-> Between(50, 100)],
       [label |-> "Stuck", index |-> 3, color |-> "red", condition |-> Lt(50)] >>

formulaColumnTypes == {<<"formula">>}
ignoreColumnTypes == {<<"status">>}

maxRetries == 3
initialDelayMs == 1000
maxDelayMs == 10000
backoffMultiplier == 2

DefaultRateLimit ==
    [maxRetries |-> maxRetries, initialDelayMs |-> initialDelayMs,
     maxDelayMs |-> maxDelayMs, backoffMultiplier |-> backoffMultiplier]

(***************************************************************************)
(* utils.js: parseFormulaValue                                             *)
(***************************************************************************)
Digits == {"0", "1", "2", "3", "4", "5", "6", "7", "8", "9"}

DigitVal(c) ==
    CASE c = "0" -> 0 [] c = "1" -> 1 [] c = "2" -> 2 [] c = "3" -> 3
      [] c = "4" -> 4 [] c = "5" -> 5 [] c = "6" -> 6 [] c = "7" -> 7
      [] c = "8" -> 8 [] c = "9" -> 9

\* a replace without the g flag: only the first match is removed
RECURSIVE StripFormatting_FirstOnly(_)
StripFormatting_FirstOnly(s) ==
    IF s = <<>> THEN <<>>
    ELSE IF Head(s) \in {",", "$", "%"} THEN Tail(s)
    ELSE <<Head(s)>> \o StripFormatting_FirstOnly(Tail(s))

\* value.replace(/[,$%]/g, '')
RECURSIVE StripFormatting(_)
StripFormatting(s) ==
    IF s = <<>> THEN <<>>
    ELSE IF Head(s) \in {",", "$", "%"} THEN StripFormatting(Tail(s))
    ELSE <<Head(s)>> \o StripFormatting(Tail(s))

RECURSIVE TrimStart(_)
TrimStart(s) ==
    IF s # <<>> /\ Head(s) = " " THEN TrimStart(Tail(s)) ELSE s

RECURSIVE TrimEnd(_)
TrimEnd(s) ==
    IF s # <<>> /\ s[Len(s)] = " " THEN TrimEnd(SubSeq(s, 1, Len(s) - 1)) ELSE s

\* String.prototype.trim
Trim(s) == TrimEnd(TrimStart(s))

\* the longest prefix of decimal digits
RECURSIVE DigitPrefix(_)
DigitPrefix(s) ==
    IF s # <<>> /\ Head(s) \in Digits THEN <<Head(s)>> \o DigitPrefix(Tail(s))
    ELSE <<>>

RECURSIVE DigitsValue(_)
DigitsValue(s) ==
    IF s = <<>> THEN 0 ELSE 10 * DigitsValue(SubSeq(s, 1, Len(s) - 1)) + DigitVal(s[Len(s)])

\* parseFloat: leading white space is skipped, then the longest prefix that is a
\* decimal literal  [+-] digits [. digits] | [+-] . digits  is converted; NaN when
\* there is none.  (Strings here hold no exponent and no "Infinity".)
parseFloat(s) ==
    LET t == TrimStart(s)
        signed == t # <<>> /\ Head(t) \in {"+", "-"}
        sign == IF t # <<>> /\ Head(t) = "-" THEN -1 ELSE 1
        u == IF signed THEN Tail(t) ELSE t
        ip == DigitPrefix(u)
        r == SubSeq(u, Len(ip) + 1, Len(u))
        fp == IF r # <<>> /\ Head(r) = "." THEN DigitPrefix(Tail(r)) ELSE <<>>
    IN  IF ip = <<>> /\ fp = <<>> THEN NaN
        ELSE Dec(sign * (DigitsValue(ip) * Pow(10, Len(fp)) + DigitsValue(fp)), Len(fp))

parseFormulaValue(value) ==
    IF value.type = "null" \/ value.type = "undefined" THEN Null
    ELSE IF value.type = "string" THEN
        \* const cleaned, const parsed: each is computed once
        CHOOSE result \in UNION {
            {IF isNaN(parsed) THEN Null ELSE parsed : parsed \in {parseFloat(cleaned)}} :
                cleaned \in {Trim(StripFormatting(value.chars))}} : TRUE
    ELSE IF value.type = "number" THEN
        IF isNaN(value) THEN Null ELSE value
    ELSE Null

(***************************************************************************)
(* utils.js: mapValueToStatus                                              *)
(***************************************************************************)
\* conditions whose range leaves its upper boundary out
condition_UpperBoundaryExcluded(status, value) ==
    LET c == status.condition
    IN  CASE c.op = "gt" -> Less(c.a, value)
          [] c.op = "between" -> LessEq(c.a, value) /\ Less(value, c.b)
          [] c.op = "lt" -> Less(value, c.a)

\* status.condition(value)
condition(status, value) ==
    LET c == status.condition
    IN  CASE c.op = "gt" -> Less(c.a, value)
          [] c.op = "between" -> LessEq(c.a, value) /\ LessEq(value, c.b)
          [] c.op = "lt" -> Less(value, c.a)

\* the for-of loop of mapValueToStatus from rule i on
RECURSIVE FindStatus(_, _, _)
FindStatus(rules, i, value) ==
    IF i > Len(rules) THEN Null
    ELSE IF condition(rules[i], value) THEN
        [label |-> rules[i].label, index |-> rules[i].index, color |-> rules[i].color]
    ELSE FindStatus(rules, i + 1, value)

\* a loop that keeps the last matching rule instead of returning at the first
mapValueToStatusWith_LastMatch(rules, value) ==
    IF value.type = "null" \/ value.type = "undefined" \/ isNaN(value) THEN Null
    ELSE LET reversed == [i \in 1 .. Len(rules) |-> rules[Len(rules) + 1 - i]]
         IN  FindStatus(reversed, 1, value)

mapValueToStatusWith(rules, value) ==
    IF value.type = "null" \/ value.type = "undefined" \/ isNaN(value) THEN Null
    ELSE FindStatus(rules, 1, value)

mapValueToStatus(value) == mapValueToStatusWith(statusMapping, value)

(***************************************************************************)
(* utils.js: shouldProcessEvent, validateWebhookPayload, extractEventData  *)
(***************************************************************************)
\* Array.prototype.includes on a list of strings
Includes(list, v) == v.type = "string" /\ v.chars \in list

\* payload[field]: a field the object does not have reads as undefined
Field(obj, f) == IF obj.type = "object" /\ f \in DOMAIN obj THEN obj[f] ELSE Undefined

\* reads a member the event record does not have, so that nothing is filtered
shouldProcessEvent_WrongMember(event) ==
    LET columnType == Field(EmptyObject, "column_type")
    IN  IF Truthy(columnType) /\ Includes(ignoreColumnTypes, columnType) THEN FALSE
        ELSE IF Truthy(columnType) /\ ~Includes(formulaColumnTypes, columnType) THEN FALSE
        ELSE TRUE

\* shouldProcessEvent under the lists of config
shouldProcessEventWith(config, event) ==
    IF Truthy(event.columnType) /\ Includes(config.ignoreColumnTypes, event.columnType)
    THEN FALSE
    ELSE IF Truthy(event.columnType)
            /\ ~Includes(config.formulaColumnTypes, event.columnType)
    THEN FALSE
    ELSE TRUE

shouldProcessEvent(event) ==
    shouldProcessEventWith([ignoreColumnTypes |-> ignoreColumnTypes,
                            formulaColumnTypes |-> formulaColumnTypes], event)

\* a validator that requires an object and no event member
validateWebhookPayload_NoRequiredFields(payload) ==
    IF ~Truthy(payload) \/ payload.type # "object" THEN FALSE
    ELSE TRUE

validateWebhookPayload(payload) ==
    IF ~Truthy(payload) \/ payload.type # "object" THEN FALSE
    ELSE IF ~Truthy(Field(payload, "event")) THEN FALSE
    ELSE TRUE

\* an extraction that fails when the event names no item
extractEventData_RequiresItemId(payload) ==
    LET event == Field(payload, "event")
    IN  IF event.type \in {"undefined", "null"} THEN Null
        ELSE IF ~Truthy(Or(Field(event, "pulseId"), Field(event, "itemId"))) THEN Null
        ELSE
        [boardId |-> Or(Field(event, "boardId"), Field(payload, "boardId")),
         itemId |-> Or(Field(event, "pulseId"), Field(event, "itemId")),
         columnType |-> Field(event, "columnType"),
         value |-> Field(event, "value")]

\* reading a property of undefined or null throws; the catch returns null
extractEventData(payload) ==
    LET event == Field(payload, "event")
    IN  IF event.type \in {"undefined", "null"} THEN Null
        ELSE
        [boardId |-> Or(Field(event, "boardId"), Field(payload, "boardId")),
         itemId |-> Or(Field(event, "pulseId"), Field(event, "itemId")),
         columnType |-> Field(event, "columnType"),
         value |-> Field(event, "value")]

(***************************************************************************)
(* utils.js: calculateBackoffDelay                                         *)
(***************************************************************************)
\* a backoff without Math.min
calculateBackoffDelayWith_Uncapped(rl, attempt) ==
    rl.initialDelayMs * Pow(rl.backoffMultiplier, attempt)

calculateBackoffDelayWith(rl, attempt) ==
    LET delay == rl.initialDelayMs * Pow(rl.backoffMultiplier, attempt)
    IN  Min(delay, rl.maxDelayMs)

calculateBackoffDelay(attempt) == calculateBackoffDelayWith(rateLimit, attempt)

(***************************************************************************)
(* Serialisation: Number.prototype.toString, JSON.stringify                *)
(***************************************************************************)
DigitChar(d) == CASE d = 0 -> "0" [] d = 1 -> "1" [] d = 2 -> "2" [] d = 3 -> "3"
                  [] d = 4 -> "4" [] d = 5 -> "5" [] d = 6 -> "6" [] d = 7 -> "7"
                  [] d = 8 -> "8" [] d = 9 -> "9"

RECURSIVE NatToChars(_)
NatToChars(n) == IF n < 10 THEN <<DigitChar(n)>> ELSE NatToChars(n \div 10) \o <<DigitChar(n % 10)>>

\* the last k digits of n, zero padded
RECURSIVE FractionChars(_, _)
FractionChars(n, k) == IF k = 0 THEN <<>> ELSE FractionChars(n \div 10, k - 1) \o <<DigitChar(n % 10)>>

NumberToChars(v) ==
    IF v.nan THEN <<"NaN">>
    ELSE LET a == IF v.m < 0 THEN -v.m ELSE v.m
             whole == NatToChars(a \div Pow(10, v.k))
             frac == IF v.k = 0 THEN <<>> ELSE <<".">> \o FractionChars(a % Pow(10, v.k), v.k)
         IN  (IF v.m < 0 THEN <<"-">> ELSE <<>>) \o whole \o frac

\* the order in which JSON.stringify writes the members of the bodies used here
MemberOrder == <<"a", "event", "boardId", "pulseId", "itemId", "columnType", "value">>

RECURSIVE stringify(_)
RECURSIVE Members(_, _)
stringify(v) ==
    CASE v.type = "null" -> <<"null">>
      [] v.type = "boolean" -> IF v.b THEN <<"true">> ELSE <<"false">>
      [] v.type = "string" -> <<"\"">> \o v.chars \o <<"\"">>
      [] v.type = "number" -> IF v.nan THEN <<"null">> ELSE NumberToChars(v)
      [] v.type = "object" -> <<"{">> \o Members(v, 1) \o <<"}">>

\* members that are undefined are left out
Members(obj, i) ==
    IF i > Len(MemberOrder) THEN <<>>
    ELSE LET f == MemberOrder[i]
             rest == Members(obj, i + 1)
         IN  IF Field(obj, f).type = "undefined" THEN rest
             ELSE <<"\"", f, "\"", ":">> \o stringify(Field(obj, f))
                  \o (IF rest = <<>> THEN <<>> ELSE <<",">> \o rest)

\* value.toString() of a string or a number
toString(v) == IF v.type = "string" THEN v ELSE Str(NumberToChars(v))

(***************************************************************************)
(* index.js: verifyWebhookSignature                                        *)
(***************************************************************************)
\* crypto.createHmac('sha256', key).update(msg).digest('hex'), symbolically: a
\* digest is equal to another exactly when key and message are
HmacSha256Hex(key, msg) == <<"hmac-sha256(">> \o key \o <<";">> \o msg \o <<")">>

\* a verifier that lets a request without the header through
verifyWebhookSignature_AcceptsMissing(req) ==
    IF ~Truthy(env.MONDAY_SIGNING_SECRET) THEN TRUE
    ELSE LET signature == req.authorization
         IN  IF ~Truthy(signature) THEN TRUE
             ELSE LET body == stringify(req.body)
                      expectedSignature ==
                          Str(HmacSha256Hex(env.MONDAY_SIGNING_SECRET.chars, body))
                  IN  signature = expectedSignature

verifyWebhookSignature(req) ==
    IF ~Truthy(env.MONDAY_SIGNING_SECRET) THEN TRUE
    ELSE LET signature == req.authorization
         IN  IF ~Truthy(signature) THEN FALSE
             ELSE LET body == stringify(req.body)
                      expectedSignature ==
                          Str(HmacSha256Hex(env.MONDAY_SIGNING_SECRET.chars, body))
                  IN  signature = expectedSignature

(***************************************************************************)
(* mondayClient.js                                                         *)
(***************************************************************************)
\* an updateStatusColumn that converts the ids with String(...), which does not
\* throw on undefined and null
updateStatusColumn_StringifiesIds(boardId, itemId, statusColumnId, statusIndex) ==
    LET String(v) == IF v.type \in {"undefined", "null"} THEN Str(<<v.type>>)
                     ELSE toString(v)
    IN  [throws |-> FALSE, error |-> "none",
         variables |-> [boardId |-> String(boardId), itemId |-> String(itemId),
                        columnId |-> statusColumnId, value |-> statusIndex]]

\* updateStatusColumn up to its call of executeQuery: boardId.toString() and
\* itemId.toString() throw a TypeError on undefined and null
updateStatusColumn(boardId, itemId, statusColumnId, statusIndex) ==
    IF boardId.type \in {"undefined", "null"} \/ itemId.type \in {"undefined", "null"}
    THEN [throws |-> TRUE, error |-> "TypeError", variables |-> Null]
    ELSE [throws |-> FALSE, error |-> "none",
          variables |-> [boardId |-> toString(boardId), itemId |-> toString(itemId),
                         columnId |-> statusColumnId, value |-> statusIndex]]

\* response.ok
Ok(response) == response.status >= 200 /\ response.status <= 299

\* an executeQuery that also retries the responses that are not a success
executeQuery_RetriesFailures(response, retryCount) ==
    IF response.kind = "reject" THEN [next |-> "throw", error |-> "FetchError", delay |-> 0]
    ELSE IF response.body = "text" THEN [next |-> "throw", error |-> "InvalidJson", delay |-> 0]
    ELSE IF response.status = 429 \/ ~Ok(response) THEN
        IF retryCount < rateLimit.maxRetries
        THEN [next |-> "retry", error |-> "none", delay |-> calculateBackoffDelay(retryCount)]
        ELSE [next |-> "throw", error |-> "RateLimitExceeded", delay |-> 0]
    ELSE IF response.body = "errors" THEN [next |-> "throw", error |-> "MondayApiError", delay |-> 0]
    ELSE [next |-> "return", error |-> "none", delay |-> 0]

\* an executeQuery that looks at the errors of the body before the status
executeQuery_ErrorsFirst(response, retryCount) ==
    IF response.kind = "reject" THEN [next |-> "throw", error |-> "FetchError", delay |-> 0]
    ELSE IF response.body = "text" THEN [next |-> "throw", error |-> "InvalidJson", delay |-> 0]
    ELSE IF response.body = "errors" THEN [next |-> "throw", error |-> "MondayApiError", delay |-> 0]
    ELSE IF response.status = 429 THEN
        IF retryCount < rateLimit.maxRetries
        THEN [next |-> "retry", error |-> "none", delay |-> calculateBackoffDelay(retryCount)]
        ELSE [next |-> "throw", error |-> "RateLimitExceeded", delay |-> 0]
    ELSE IF ~Ok(response) THEN [next |-> "throw", error |-> "HttpError", delay |-> 0]
    ELSE [next |-> "return", error |-> "none", delay |-> 0]

\* executeQuery from the settling of fetch to its retry, throw or return
executeQuery(response, retryCount) ==
    IF response.kind = "reject" THEN [next |-> "throw", error |-> "FetchError", delay |-> 0]
    ELSE IF response.body = "text" THEN [next |-> "throw", error |-> "InvalidJson", delay |-> 0]
    ELSE IF response.status = 429 THEN
        IF retryCount < rateLimit.maxRetries
        THEN [next |-> "retry", error |-> "none", delay |-> calculateBackoffDelay(retryCount)]
        ELSE [next |-> "throw", error |-> "RateLimitExceeded", delay |-> 0]
    ELSE IF response.body = "errors" THEN [next |-> "throw", error |-> "MondayApiError", delay |-> 0]
    ELSE IF ~Ok(response) THEN [next |-> "throw", error |-> "HttpError", delay |-> 0]
    ELSE [next |-> "return", error |-> "none", delay |-> 0]

(***************************************************************************)
(* index.js: processWebhookEvent                                           *)
(***************************************************************************)
\* a catch block that throws the error again
processWebhookEventCatch_Rethrows(error) ==
    [stage |-> "done", outcome |-> "failed", error |-> error, rejected |-> TRUE]

\* a catch block that hands the event to the task again
processWebhookEventCatch_Reschedules(error) ==
    [stage |-> "scheduled", outcome |-> "none", error |-> error, rejected |-> FALSE]

\* the catch block: the error is logged and not thrown again
processWebhookEventCatch(error) ==
    [stage |-> "done", outcome |-> "failed", error |-> error, rejected |-> FALSE]

\* a processWebhookEvent that hands the item id and the board id over in the
\* wrong order
processWebhookEvent_SwapsIds(eventData) ==
    LET numericValue == parseFormulaValue(eventData.value)
        status == mapValueToStatus(numericValue)
        statusColumnId == Or(env.STATUS_COLUMN_ID, Str(<<"status">>))
        update == updateStatusColumn(eventData.itemId, eventData.boardId,
                                     statusColumnId, status.index)
        call == [boardId |-> eventData.itemId, itemId |-> eventData.boardId,
                 statusColumnId |-> statusColumnId, statusIndex |-> status.index]
        stop(o) == [stage |-> "done", outcome |-> o, error |-> "none", rejected |-> FALSE,
                    calls |-> <<>>, sent |-> 0]
    IN  IF numericValue = Null THEN stop("unparseable")
        ELSE IF status = Null THEN stop("nomatch")
        ELSE IF update.throws
        THEN processWebhookEventCatch(update.error) @@ [calls |-> <<call>>, sent |-> 0]
        ELSE [stage |-> "fetching", outcome |-> "none", error |-> "none",
              rejected |-> FALSE, calls |-> <<call>>, sent |-> 1]

\* processWebhookEvent from its start to its first await
processWebhookEvent(eventData) ==
    \* const numericValue, const status: each is computed once
    CHOOSE result \in UNION {{
    LET statusColumnId == Or(env.STATUS_COLUMN_ID, Str(<<"status">>))
        update == updateStatusColumn(eventData.boardId, eventData.itemId,
                                     statusColumnId, status.index)
        call == [boardId |-> eventData.boardId, itemId |-> eventData.itemId,
                 statusColumnId |-> statusColumnId, statusIndex |-> status.index]
        stop(o) == [stage |-> "done", outcome |-> o, error |-> "none", rejected |-> FALSE,
                    calls |-> <<>>, sent |-> 0]
    IN  IF numericValue = Null THEN stop("unparseable")
        ELSE IF status = Null THEN stop("nomatch")
        ELSE IF update.throws
        THEN processWebhookEventCatch(update.error) @@ [calls |-> <<call>>, sent |-> 0]
        ELSE [stage |-> "fetching", outcome |-> "none", error |-> "none",
              rejected |-> FALSE, calls |-> <<call>>, sent |-> 1]
        : status \in {mapValueToStatus(numericValue)}}
        : numericValue \in {parseFormulaValue(eventData.value)}} : TRUE

(***************************************************************************)
(* index.js: app.post('/webhook')                                          *)
(***************************************************************************)
Response(status, body) == [status |-> status, body |-> body]
NoResponse == Response(0, "none")
Received == Response(200, "Webhook received")
Ignored == Response(200, "Event ignored")

\* a handler that leaves the response to the end of the processing
Handler_RespondsAfterProcessing(req) ==
    LET eventData == extractEventData(req.body)
        end(r) == [response |-> r, scheduled |-> FALSE, eventData |-> Null]
    IN  IF ~verifyWebhookSignature(req) THEN end(Response(401, "Invalid signature"))
        ELSE IF ~validateWebhookPayload(req.body) THEN end(Response(400, "Invalid payload"))
        ELSE IF eventData = Null THEN end(Response(400, "Invalid event data"))
        ELSE IF ~shouldProcessEvent(eventData)
        THEN [response |-> Ignored, scheduled |-> FALSE, eventData |-> eventData]
        ELSE [response |-> NoResponse, scheduled |-> TRUE, eventData |-> eventData]

\* a handler that validates the payload before it verifies the signature
Handler_ValidatesFirst(req) ==
    LET eventData == extractEventData(req.body)
        end(r) == [response |-> r, scheduled |-> FALSE, eventData |-> Null]
    IN  IF ~validateWebhookPayload(req.body) THEN end(Response(400, "Invalid payload"))
        ELSE IF ~verifyWebhookSignature(req) THEN end(Response(401, "Invalid signature"))
        ELSE IF eventData = Null THEN end(Response(400, "Invalid event data"))
        ELSE IF ~shouldProcessEvent(eventData)
        THEN [response |-> Ignored, scheduled |-> FALSE, eventData |-> eventData]
        ELSE [response |-> Received, scheduled |-> TRUE, eventData |-> eventData]

\* a handler that goes on to schedule the task after it answered 'Event ignored'
Handler_SchedulesIgnored(req) ==
    LET eventData == extractEventData(req.body)
        end(r) == [response |-> r, scheduled |-> FALSE, eventData |-> Null]
    IN  IF ~verifyWebhookSignature(req) THEN end(Response(401, "Invalid signature"))
        ELSE IF ~validateWebhookPayload(req.body) THEN end(Response(400, "Invalid payload"))
        ELSE IF eventData = Null THEN end(Response(400, "Invalid event data"))
        ELSE IF ~shouldProcessEvent(eventData)
        THEN [response |-> Ignored, scheduled |-> TRUE, eventData |-> eventData]
        ELSE [response |-> Received, scheduled |-> TRUE, eventData |-> eventData]

\* the handler: the response it sends and whether it hands the event to
\* setImmediate
Handler(req) ==
    LET eventData == extractEventData(req.body)
        end(r) == [response |-> r, scheduled |-> FALSE, eventData |-> Null]
    IN  IF ~verifyWebhookSignature(req) THEN end(Response(401, "Invalid signature"))
        ELSE IF ~validateWebhookPayload(req.body) THEN end(Response(400, "Invalid payload"))
        ELSE IF eventData = Null THEN end(Response(400, "Invalid event data"))
        ELSE IF ~shouldProcessEvent(eventData)
        THEN [response |-> Ignored, scheduled |-> FALSE, eventData |-> eventData]
        ELSE [response |-> Received, scheduled |-> TRUE, eventData |-> eventData]

(***************************************************************************)
(* Requests and remote responses                                           *)
(***************************************************************************)
\* the deliveries of the webhook that other column changes cause
MaxDeliveries == 1

\* every delivery has a slot, and so has the change event of the status write
\* of each of them
Slots == 1 .. 2 * MaxDeliveries

Deliveries == DOMAIN deliveries

External == {d \in Deliveries : 2 * d <= Cardinality(Deliveries)}

ChangeEventOf(d) == d + Cardinality(Deliveries) \div 2

Event(boardId, pulseId, itemId, columnType, value) ==
    [type |-> "object", boardId |-> boardId, pulseId |-> pulseId, itemId |-> itemId,
     columnType |-> columnType, value |-> value]

Payload(event, boardId) == [type |-> "object", event |-> event, boardId |-> boardId]

Board == Str(<<"456">>)
Item == Str(<<"123">>)
Formula == Str(<<"formula">>)

ColumnTypes == {Undefined, Str(<<"status">>), Formula, Str(<<"text">>)}

Values == {Str(<<"8", "5", "%">>), Num(150), Str(<<"a", "b", "c">>), Null}

Events ==
    {Event(Board, Item, Undefined, ct, Str(<<"8", "5", "%">>)) : ct \in ColumnTypes}
    \cup {Event(Board, Item, Undefined, Formula, v) : v \in Values}
    \cup {Event(Undefined, Item, Undefined, Formula, Num(150)),
          Event(Board, Undefined, Undefined, Formula, Num(150)),
          EmptyObject}

Bodies ==
    {EmptyObject, Payload(Null, Undefined)}
    \cup {Payload(e, Undefined) : e \in Events}
    \cup {Payload(Event(Undefined, Undefined, Item, Formula, Num(150)), Board),
          Payload(Str(<<"x">>), Undefined)}

\* the secret the sender signs with
SenderSecret == <<"s3cr3t">>

Authorizations(body) ==
    {Undefined,
     Str(HmacSha256Hex(SenderSecret, stringify(body))),
     Str(HmacSha256Hex(<<"other">>, stringify(body)))}

Requests ==
    UNION {{[authorization |-> a, body |-> b] : a \in Authorizations(b)} : b \in Bodies}

\* what fetch settles with: a rejection, or a response with its status and its
\* body: an object with data, an object with errors, or text that is not JSON
Responses ==
    {[kind |-> "reject", status |-> 0, body |-> "none"]}
    \cup {[kind |-> "http", status |-> st, body |-> b] :
            st \in {200, 429, 500}, b \in {"data", "errors", "text"}}

NoReply == [kind |-> "none", status |-> 0, body |-> "none"]

\* the remote API carries out the mutation it answers with a success
Applied(response) == response.kind = "http" /\ response.status = 200 /\ response.body = "data"

(***************************************************************************)
(* The state machine                                                       *)
(***************************************************************************)
NoDelivery ==
    [stage |-> "none", cause |-> "none", verified |-> FALSE, body |-> Undefined,
     response |-> NoResponse, eventData |-> Null, outcome |-> "none", error |-> "none", rejected |-> FALSE,
     calls |-> <<>>, sent |-> 0, retryCount |-> 0, delays |-> <<>>,
     lastResponse |-> NoReply]

GappedStatusMapping == << DefaultStatusMapping[1], DefaultStatusMapping[3] >>

Env(secret, column) == [MONDAY_SIGNING_SECRET |-> secret, STATUS_COLUMN_ID |-> column]

\* the configurations the process is started with
Configurations ==
    {[env |-> Env(Str(SenderSecret), Undefined), statusMapping |-> DefaultStatusMapping],
     [env |-> Env(Str(SenderSecret), Str(<<"status_1">>)), statusMapping |-> GappedStatusMapping],
     [env |-> Env(Undefined, Undefined), statusMapping |-> DefaultStatusMapping]}

NoProbe == [fn |-> "none"]

\* the remote item: the index its status column holds (0: never written), the
\* deliveries whose write has a change event to come, the number of writes
NoWrites == [status |-> 0, events |-> {}, writes |-> 0]

Init ==
    /\ \E c \in Configurations : env = c.env /\ statusMapping = c.statusMapping
    /\ rateLimit = DefaultRateLimit
    /\ deliveries = [d \in Slots |-> NoDelivery]
    /\ remote = NoWrites
    /\ probe = NoProbe

\* deliveries are numbered in the order of their arrival
Arrives(d) ==
    /\ d \in External
    /\ deliveries[d].stage = "none"
    /\ \A e \in External : e < d => deliveries[e].stage # "none"

\* the whole of the handler of POST /webhook on request req; the delivery keeps
\* the request's body and what the verifier says of the request
Deliver(d, req, cause) ==
    LET h == Handler(req)
    IN  deliveries' = [deliveries EXCEPT ![d] =
            [@ EXCEPT !.stage = IF h.scheduled THEN "scheduled" ELSE "responded",
                      !.cause = cause, !.verified = verifyWebhookSignature(req),
                      !.body = req.body,
                      !.response = h.response,
                      !.eventData = h.eventData]]

\* a delivery of the webhook
Webhook(d, req) ==
    /\ Arrives(d)
    /\ Deliver(d, req, "external")
    /\ UNCHANGED <<env, statusMapping, rateLimit, remote, probe>>

\* the status column's change, written by updateStatusColumn, is delivered too
StatusChangeRequest ==
    LET body == Payload(Event(Board, Item, Undefined, Str(<<"status">>), EmptyObject),
                        Undefined)
    IN  [authorization |-> Str(HmacSha256Hex(SenderSecret, stringify(body))), body |-> body]

StatusChangeWebhook(d) ==
    /\ d \in remote.events
    /\ deliveries[ChangeEventOf(d)].stage = "none"
    /\ Deliver(ChangeEventOf(d), StatusChangeRequest, "status write")
    /\ remote' = [remote EXCEPT !.events = @ \ {d}]
    /\ UNCHANGED <<env, statusMapping, rateLimit, probe>>

\* the setImmediate callback: processWebhookEvent up to its first await
Process(d) ==
    /\ deliveries[d].stage = "scheduled"
    /\ \E t \in {processWebhookEvent(deliveries[d].eventData)} :
           deliveries' = [deliveries EXCEPT ![d] =
               [@ EXCEPT !.stage = t.stage, !.outcome = t.outcome, !.error = t.error,
                         !.rejected = t.rejected, !.calls = t.calls, !.sent = t.sent]]
    /\ UNCHANGED <<env, statusMapping, rateLimit, remote, probe>>

\* a client that sends the updates through a queue, in the order of the deliveries
FetchSettles_InDeliveryOrder(d, response) ==
    /\ deliveries[d].stage = "fetching"
    /\ \A e \in External : e < d => deliveries[e].stage \in {"responded", "done"}
    /\ LET q == executeQuery(response, deliveries[d].retryCount)
           c == processWebhookEventCatch(q.error)
       IN  deliveries' = [deliveries EXCEPT ![d] =
               CASE q.next = "retry" ->
                        [@ EXCEPT !.stage = "sleeping", !.lastResponse = response,
                                  !.delays = Append(@, q.delay)]
                 [] q.next = "throw" ->
                        [@ EXCEPT !.stage = c.stage, !.outcome = c.outcome,
                                  !.error = c.error, !.rejected = c.rejected,
                                  !.lastResponse = response]
                 [] q.next = "return" ->
                        [@ EXCEPT !.stage = "done", !.outcome = "updated",
                                  !.lastResponse = response]]
    /\ remote' = IF Applied(response)
                 THEN [status |-> deliveries[d].calls[1].statusIndex,
                       events |-> remote.events \cup ({d} \cap External),
                       writes |-> remote.writes + 1]
                 ELSE remote
    /\ UNCHANGED <<env, statusMapping, rateLimit, probe>>

\* fetch settles: executeQuery retries, throws into the catch of
\* processWebhookEvent, or returns and processWebhookEvent logs the success
FetchSettles(d, response) ==
    /\ deliveries[d].stage = "fetching"
    /\ LET q == executeQuery(response, deliveries[d].retryCount)
           c == processWebhookEventCatch(q.error)
       IN  deliveries' = [deliveries EXCEPT ![d] =
               CASE q.next = "retry" ->
                        [@ EXCEPT !.stage = "sleeping", !.lastResponse = response,
                                  !.delays = Append(@, q.delay)]
                 [] q.next = "throw" ->
                        [@ EXCEPT !.stage = c.stage, !.outcome = c.outcome,
                                  !.error = c.error, !.rejected = c.rejected,
                                  !.lastResponse = response]
                 [] q.next = "return" ->
                        [@ EXCEPT !.stage = "done", !.outcome = "updated",
                                  !.lastResponse = response]]
    /\ remote' = IF Applied(response)
                 THEN [status |-> deliveries[d].calls[1].statusIndex,
                       events |-> remote.events \cup ({d} \cap External),
                       writes |-> remote.writes + 1]
                 ELSE remote
    /\ UNCHANGED <<env, statusMapping, rateLimit, probe>>

\* a client that keeps one retry counter for all its calls
SleepElapses_SharedRetryCount(d) ==
    /\ deliveries[d].stage = "sleeping"
    /\ LET counts == {deliveries[e].retryCount : e \in Deliveries}
           highest == CHOOSE n \in counts : \A k \in counts : k <= n
       IN  deliveries' = [deliveries EXCEPT ![d] =
               [@ EXCEPT !.stage = "fetching", !.retryCount = highest + 1, !.sent = @ + 1]]
    /\ UNCHANGED <<env, statusMapping, rateLimit, remote, probe>>

\* sleep(delay) is over: executeQuery(query, variables, retryCount + 1) sends again
SleepElapses(d) ==
    /\ deliveries[d].stage = "sleeping"
    /\ deliveries' = [deliveries EXCEPT ![d] =
           [@ EXCEPT !.stage = "fetching", !.retryCount = @ + 1, !.sent = @ + 1]]
    /\ UNCHANGED <<env, statusMapping, rateLimit, remote, probe>>

Next ==
    \/ \E d \in External, req \in Requests : Webhook(d, req)
    \/ \E d \in External : StatusChangeWebhook(d)
    \/ \E d \in Deliveries : Process(d)
    \/ \E d \in Deliveries, response \in Responses : FetchSettles(d, response)
    \/ \E d \in Deliveries : SleepElapses(d)

Spec == Init /\ [][Next]_vars

(***************************************************************************)
(* Properties of the webhook endpoint                                      *)
(***************************************************************************)
Arrived(d) == deliveries[d].stage # "none"

\* the delivery's task has been started by setImmediate
TaskStarted(d) == deliveries[d].stage \in {"fetching", "sleeping", "done"}

\* no remote call is attempted for the delivery, now or later
NoRemoteCall(d) ==
    /\ deliveries[d].stage = "responded"
    /\ deliveries[d].sent = 0
    /\ deliveries[d].calls = <<>>
    /\ deliveries[d].outcome = "none"

\* a non-null object with a truthy event member
WellFormed(body) ==
    body.type = "object" /\ "event" \in DOMAIN body /\ Truthy(body.event)

\* the request passed the verification and the validation and its event is of
\* no column type, or of one that is monitored and not ignored
Eligible(delivery) ==
    /\ delivery.verified
    /\ WellFormed(delivery.body)
    /\ LET columnType == Field(delivery.body.event, "columnType")
       IN  \/ columnType.type = "undefined"
           \/ /\ columnType.type = "string"
              /\ columnType.chars \in formulaColumnTypes \ ignoreColumnTypes

\* C1: a request that passes the verification, the validation, the extraction
\* and the filter is answered 200 'Webhook received' by the handler itself,
\* before the delivery's first remote request is issued, and no later step (a
\* retry, a failure, a success of the remote call) changes a response once it
\* is sent.
C1_ResponseBeforeRemoteCall ==
    [][\A d \in Deliveries :
          /\ deliveries'[d].stage # "none" => deliveries'[d].response # NoResponse
          /\ (deliveries'[d].stage # "none" /\ Eligible(deliveries'[d]))
             => deliveries'[d].response = Received
          /\ deliveries'[d].sent > deliveries[d].sent => deliveries[d].response = Received
          /\ deliveries[d].response # NoResponse =>
                deliveries'[d].response = deliveries[d].response]_vars

\* an accepted delivery whose remote call was rate limited on every attempt
C1_Witness ==
    \E d \in Deliveries :
        /\ deliveries[d].response = Received
        /\ deliveries[d].stage = "done"
        /\ deliveries[d].error = "RateLimitExceeded"
        /\ deliveries[d].sent = maxRetries + 1

\* C2: an event whose columnType is in the ignore set is answered 200 'Event
\* ignored' and never leads to a remote call; the change event of the status
\* column the system wrote is such an event, so the status writes never
\* outnumber the deliveries that were not caused by a status write.
C2_LoopPrevention ==
    /\ \A d \in Deliveries :
          /\ (/\ Arrived(d)
              /\ deliveries[d].verified
              /\ WellFormed(deliveries[d].body)
              /\ Field(deliveries[d].body.event, "columnType").type = "string"
              /\ Field(deliveries[d].body.event, "columnType").chars \in ignoreColumnTypes)
             => deliveries[d].response = Ignored /\ NoRemoteCall(d)
          /\ (Arrived(d) /\ deliveries[d].cause = "status write")
             => deliveries[d].response = Ignored /\ NoRemoteCall(d)
    /\ remote.writes <= Cardinality({d \in Deliveries : deliveries[d].cause = "external"})

\* the change event of a status write was delivered and ignored
C2_Witness ==
    \E d \in External :
        /\ deliveries[d].outcome = "updated"
        /\ deliveries[ChangeEventOf(d)].cause = "status write"
        /\ deliveries[ChangeEventOf(d)].response = Ignored

\* C3: a request that fails the signature verification is answered 401, also
\* when its payload is malformed, and no task is scheduled and no remote request
\* issued for it.
C3_BadSignature ==
    \A d \in Deliveries :
        (Arrived(d) /\ ~deliveries[d].verified)
        => deliveries[d].response = Response(401, "Invalid signature") /\ NoRemoteCall(d)

\* a request with a bad signature and a malformed payload was answered 401
C3_Witness ==
    \E d \in Deliveries :
        /\ Arrived(d)
        /\ ~deliveries[d].verified
        /\ ~WellFormed(deliveries[d].body)
        /\ deliveries[d].response.status = 401

\* C4: a verified request whose payload is not a non-null object with a truthy
\* event is answered 400; every request answered 401, 400 or 200 'Event ignored'
\* has its response from the handler itself and no remote call, ever.
C4_BadPayload ==
    \A d \in Deliveries :
        /\ (Arrived(d) /\ deliveries[d].verified /\ ~WellFormed(deliveries[d].body))
           => deliveries[d].response = Response(400, "Invalid payload")
        /\ Arrived(d) => deliveries[d].response # NoResponse
        /\ (deliveries[d].response.status \in {400, 401} \/ deliveries[d].response = Ignored)
           => NoRemoteCall(d)

\* a verified request with a malformed payload was answered 400
C4_Witness ==
    \E d \in Deliveries :
        /\ deliveries[d].verified
        /\ ~WellFormed(deliveries[d].body)
        /\ deliveries[d].response.status = 400
        /\ deliveries[d].stage = "responded"

\* C5: whatever the outcome of the task of an accepted delivery, the response
\* stays the 200 'Webhook received', no delivery is answered 500, and the error
\* of a failed task is caught in processWebhookEvent and not thrown out of it.
C5_TaskFailuresNotSurfaced ==
    \A d \in Deliveries :
        /\ deliveries[d].stage \in {"scheduled", "fetching", "sleeping", "done"}
           => deliveries[d].response = Received
        /\ deliveries[d].response.status # 500
        /\ ~deliveries[d].rejected
        /\ deliveries[d].outcome = "failed" <=> deliveries[d].error # "none"

\* the task of an accepted delivery failed with the rate limit exceeded
C5_Witness ==
    \E d \in Deliveries :
        /\ deliveries[d].stage = "done"
        /\ deliveries[d].outcome = "failed"
        /\ deliveries[d].error = "RateLimitExceeded"
        /\ deliveries[d].response = Received

(***************************************************************************)
(* Properties of the remote update client and of the task                  *)
(***************************************************************************)
\* C6: a 429 response is retried while retryCount < maxRetries and fails with
\* RateLimitExceeded at retryCount = maxRetries, so that a call answered 429
\* every time ends after exactly maxRetries + 1 requests; no call sends more than
\* maxRetries + 1 requests and retryCount never exceeds maxRetries.
C6_RetryStateMachine ==
    \A d \in Deliveries :
        /\ deliveries[d].retryCount <= maxRetries
        /\ deliveries[d].sent <= maxRetries + 1
        /\ deliveries[d].stage = "sleeping" => deliveries[d].retryCount < maxRetries
        /\ (deliveries[d].stage = "done" /\ deliveries[d].lastResponse.status = 429)
           => /\ deliveries[d].error = "RateLimitExceeded"
              /\ deliveries[d].retryCount = maxRetries
              /\ deliveries[d].sent = maxRetries + 1

ConfiguredColumn ==
    IF env.STATUS_COLUMN_ID.type = "string" /\ env.STATUS_COLUMN_ID.chars # <<>>
    THEN env.STATUS_COLUMN_ID ELSE Str(<<"status">>)

\* C9: the task of an accepted delivery calls updateStatusColumn once, with the
\* event's board id and item id, the configured status column id and the mapped
\* index, if the event's value parses and maps to a status, and never
\* otherwise; the value "85%" of item 123 on board 456 gives index 2 under the
\* default rules.
C9_OneUpdatePerAcceptedEvent ==
    \A d \in Deliveries :
        /\ Len(deliveries[d].calls) <= 1
        /\ ~TaskStarted(d) => deliveries[d].calls = <<>>
        /\ TaskStarted(d) =>
             LET event == deliveries[d].eventData
                 number == parseFormulaValue(event.value)
                 status == mapValueToStatus(number)
             IN  /\ deliveries[d].response = Received
                 /\ IF number # Null /\ status # Null
                    THEN deliveries[d].calls =
                            << [boardId |-> event.boardId, itemId |-> event.itemId,
                                statusColumnId |-> ConfiguredColumn,
                                statusIndex |-> status.index] >>
                    ELSE /\ deliveries[d].calls = <<>>
                         /\ deliveries[d].stage = "done"
                         /\ deliveries[d].outcome \in {"unparseable", "nomatch"}
                         /\ deliveries[d].error = "none"
                         /\ deliveries[d].sent = 0
                 /\ (/\ event.value = Str(<<"8", "5", "%">>)
                     /\ event.boardId = Board /\ event.itemId = Item
                     /\ statusMapping = DefaultStatusMapping)
                    => /\ deliveries[d].calls[1].statusIndex = 2
                       /\ deliveries[d].calls[1].boardId = Board
                       /\ deliveries[d].calls[1].itemId = Item

\* the event of the example led to one call, for index 2, and the update went
\* through after a retry
C9_Witness ==
    \E d \in Deliveries :
        /\ deliveries[d].outcome = "updated"
        /\ deliveries[d].sent > 1
        /\ deliveries[d].eventData.value = Str(<<"8", "5", "%">>)
        /\ Len(deliveries[d].calls) = 1
        /\ deliveries[d].calls[1].statusIndex = 2

(***************************************************************************)
(* calculateBackoffDelay on its own, and as executeQuery uses it            *)
(***************************************************************************)
MaxAttempt == 6

RateLimits ==
    {[maxRetries |-> r, initialDelayMs |-> i, maxDelayMs |-> maxDelayMs, backoffMultiplier |-> b] :
        r \in {maxRetries, maxRetries + 2}, i \in {initialDelayMs, 500},
        b \in {backoffMultiplier, 3}}

InitBackoff ==
    /\ env = Env(Undefined, Undefined)
    /\ statusMapping = DefaultStatusMapping
    /\ rateLimit \in RateLimits
    /\ deliveries = [d \in Slots |-> NoDelivery]
    /\ remote = NoWrites
    /\ probe \in {[fn |-> "pending", attempt |-> n, result |-> 0] : n \in 0 .. MaxAttempt}

\* calculateBackoffDelay(attempt)
ProbeBackoffDelay ==
    /\ probe.fn = "pending"
    /\ probe' = [fn |-> "calculateBackoffDelay", attempt |-> probe.attempt,
                 result |-> calculateBackoffDelay(probe.attempt)]
    /\ UNCHANGED <<env, statusMapping, rateLimit, deliveries, remote>>

\* the delay executeQuery sleeps for on a 429 at retryCount = attempt
ProbeRetryDelay ==
    /\ probe.fn = "pending"
    /\ LET q == executeQuery([kind |-> "http", status |-> 429, body |-> "data"], probe.attempt)
       IN  /\ q.next = "retry"
           /\ probe' = [fn |-> "executeQuery", attempt |-> probe.attempt, result |-> q.delay]
    /\ UNCHANGED <<env, statusMapping, rateLimit, deliveries, remote>>

NextBackoff == ProbeBackoffDelay \/ ProbeRetryDelay

SpecBackoff == InitBackoff /\ [][NextBackoff]_vars

\* initialDelayMs * backoffMultiplier^n, by repeated multiplication
RECURSIVE Grown(_, _, _)
Grown(delay, multiplier, n) == IF n = 0 THEN delay ELSE Grown(delay * multiplier, multiplier, n - 1)

DefaultDelays == <<1000, 2000, 4000, 8000>>

\* C8: the delay for retryCount n, computed alone or waited by executeQuery, is
\* min(initialDelayMs * backoffMultiplier^n, maxDelayMs); with 1000, 2 and 10000
\* it is 1000, 2000, 4000, 8000 for n = 0..3 and 10000 from then on; it never
\* exceeds maxDelayMs and never decreases from one attempt to the next.
C8_BackoffDelay ==
    probe.fn \in {"calculateBackoffDelay", "executeQuery"} =>
        LET n == probe.attempt
            grown == Grown(rateLimit.initialDelayMs, rateLimit.backoffMultiplier, n)
        IN  /\ probe.result = IF grown < rateLimit.maxDelayMs THEN grown ELSE rateLimit.maxDelayMs
            /\ probe.result <= rateLimit.maxDelayMs
            /\ n > 0 => calculateBackoffDelay(n - 1) <= probe.result
            /\ (rateLimit.initialDelayMs = 1000 /\ rateLimit.backoffMultiplier = 2
                /\ rateLimit.maxDelayMs = 10000)
               => probe.result = IF n <= 3 THEN DefaultDelays[n + 1] ELSE 10000

\* the first attempt of the default policy at which the cap applies
C8_Witness ==
    /\ probe.fn = "calculateBackoffDelay"
    /\ rateLimit = DefaultRateLimit
    /\ probe.attempt = 4
    /\ probe.result = 10000

(***************************************************************************)
(* mapValueToStatus over ordered rule lists                                *)
(***************************************************************************)
MaxRules == 3

\* the default rules and two more that overlap them
RulePool ==
    {DefaultStatusMapping[i] : i \in 1 .. 3}
    \cup {[label |-> "Review", index |-> 4, color |-> "blue", condition |-> Gt(60)],
          [label |-> "Low", index |-> 5, color |-> "grey", condition |-> Between(0, 60)]}

RuleLists == UNION {[1 .. n -> RulePool] : n \in 0 .. MaxRules}

MapValues ==
    {Num(75), Num(150), Num(30), Num(50), Num(100), Num(60), Dec(1001, 1), Num(-5),
     Dec(4999, 2), Num(0), NaN, Null, Undefined}

InitMap ==
    /\ env = Env(Undefined, Undefined)
    /\ statusMapping \in RuleLists
    /\ rateLimit = DefaultRateLimit
    /\ deliveries = [d \in Slots |-> NoDelivery]
    /\ remote = NoWrites
    /\ probe \in {[fn |-> "pending", value |-> v, result |-> Null] : v \in MapValues}

\* mapValueToStatus(value)
ProbeMapValueToStatus ==
    /\ probe.fn = "pending"
    /\ probe' = [fn |-> "mapValueToStatus", value |-> probe.value,
                 result |-> mapValueToStatus(probe.value)]
    /\ UNCHANGED <<env, statusMapping, rateLimit, deliveries, remote>>

NextMap == ProbeMapValueToStatus

SpecMap == InitMap /\ [][NextMap]_vars

\* the rules of the configured list whose predicate holds for the number v
Matching(v) ==
    {i \in 1 .. Len(statusMapping) :
        v.type = "number" /\ ~v.nan /\ condition(statusMapping[i], v)}

\* C10: mapValueToStatus returns the label, index and color of the first rule,
\* in the order of the list, whose predicate holds for the value, also when the
\* predicates of several rules hold, and null when none holds or the value is
\* null, undefined or NaN; the default rules map 75 to 'Working on it', 2.
C10_FirstMatchingRule ==
    probe.fn = "mapValueToStatus" =>
        /\ IF Matching(probe.value) = {} THEN probe.result = Null
           ELSE LET first == CHOOSE i \in Matching(probe.value) :
                                 \A j \in Matching(probe.value) : i <= j
                    rule == statusMapping[first]
                IN  probe.result =
                        [label |-> rule.label, index |-> rule.index, color |-> rule.color]
        /\ (statusMapping = DefaultStatusMapping /\ probe.value = Num(75))
           => probe.result = [label |-> "Working on it", index |-> 2, color |-> "yellow"]

\* a value two different rules of the list hold for, mapped to the earlier one
C10_Witness ==
    /\ probe.fn = "mapValueToStatus"
    /\ \E i, j \in Matching(probe.value) :
          /\ i < j
          /\ statusMapping[i].index # statusMapping[j].index
          /\ probe.result.index = statusMapping[i].index

\* C11: under the default rules every number that is not NaN satisfies the
\* predicate of exactly one rule, and is mapped to 'Done', 1 exactly when it is
\* above 100, to 'Working on it', 2 exactly when it is from 50 to 100, both
\* included, and to 'Stuck', 3 exactly when it is below 50; never to null.
C11_DefaultPartition ==
    (/\ probe.fn = "mapValueToStatus"
     /\ statusMapping = DefaultStatusMapping
     /\ probe.value.type = "number"
     /\ ~probe.value.nan)
    => LET v == probe.value
           above == v.m > 100 * Pow(10, v.k)
           below == v.m < 50 * Pow(10, v.k)
           is(label, index) == probe.result.label = label /\ probe.result.index = index
       IN  /\ Cardinality(Matching(v)) = 1
           /\ probe.result # Null
           /\ is("Done", 1) <=> above
           /\ is("Working on it", 2) <=> (~above /\ ~below)
           /\ is("Stuck", 3) <=> below

\* the upper boundary of the middle rule, mapped by the middle rule
C11_Witness ==
    /\ probe.fn = "mapValueToStatus"
    /\ statusMapping = DefaultStatusMapping
    /\ probe.value = Num(100)
    /\ probe.result.index = 2

(***************************************************************************)
(* shouldProcessEvent over column types and lists                          *)
(***************************************************************************)
DefaultFilter ==
    [ignoreColumnTypes |-> ignoreColumnTypes, formulaColumnTypes |-> formulaColumnTypes]

\* the default lists and lists that are longer, empty or overlap
FilterConfigs ==
    {[ignoreColumnTypes |-> i, formulaColumnTypes |-> f] :
        i \in SUBSET {<<"status">>, <<"formula">>},
        f \in {{<<"formula">>}, {<<"formula">>, <<"numbers">>}, {<<"status">>, <<"formula">>}}}

\* event.columnType: absent, the empty string, strings, a number
FilterColumnTypes ==
    {Undefined, Str(<<>>), Str(<<"status">>), Formula, Str(<<"text">>),
     Str(<<"numbers">>), Num(7)}

InitFilter ==
    /\ env = Env(Undefined, Undefined)
    /\ statusMapping = DefaultStatusMapping
    /\ rateLimit = DefaultRateLimit
    /\ deliveries = [d \in Slots |-> NoDelivery]
    /\ remote = NoWrites
    /\ probe \in {[fn |-> "pending", config |-> c, result |-> FALSE,
                    event |-> [boardId |-> Board, itemId |-> Item, columnType |-> ct,
                               value |-> Num(150)]] :
                      c \in FilterConfigs, ct \in FilterColumnTypes}

\* shouldProcessEvent(event)
ProbeShouldProcessEvent ==
    /\ probe.fn = "pending"
    /\ probe' = [probe EXCEPT !.fn = "shouldProcessEvent",
                              !.result = shouldProcessEventWith(probe.config, probe.event)]
    /\ UNCHANGED <<env, statusMapping, rateLimit, deliveries, remote>>

NextFilter == ProbeShouldProcessEvent

SpecFilter == InitFilter /\ [][NextFilter]_vars

\* C12: shouldProcessEvent is false when the column type is in the ignore list,
\* false when a column type is present and not in the allow list, and true
\* otherwise; under the default lists it is false for 'status', true for
\* 'formula', false for every other column type that is present and true when
\* there is none.
C12_Filter ==
    probe.fn = "shouldProcessEvent" =>
        LET columnType == probe.event.columnType
            present == columnType.type # "undefined"
            in(list) == columnType.type = "string" /\ columnType.chars \in list
        IN  /\ probe.result = (IF in(probe.config.ignoreColumnTypes) THEN FALSE
                               ELSE IF present /\ ~in(probe.config.formulaColumnTypes)
                                    THEN FALSE
                               ELSE TRUE)
            /\ probe.config = DefaultFilter =>
                  probe.result = (~present \/ columnType = Formula)

(***************************************************************************)
(* verifyWebhookSignature over secrets, bodies and headers                 *)
(***************************************************************************)
\* the body {"a":1}
ExampleBody == [type |-> "object", a |-> Num(1)]

VerifyBodies ==
    {EmptyObject, ExampleBody, Payload(Null, Undefined),
     Payload(Event(Board, Item, Undefined, Formula, Str(<<"8", "5", "%">>)), Undefined)}

\* the header: absent, empty, the digest of the body under the sender's secret
\* and under another, the digest of another body, the digest after a prefix
VerifyAuthorizations(body) ==
    Authorizations(body)
    \cup {Str(<<>>),
          Str(HmacSha256Hex(SenderSecret, stringify(Payload(EmptyObject, Undefined)))),
          Str(<<"sha256=">> \o HmacSha256Hex(SenderSecret, stringify(body)))}

VerifyRequests ==
    UNION {{[authorization |-> a, body |-> b] : a \in VerifyAuthorizations(b)} :
              b \in VerifyBodies}

\* MONDAY_SIGNING_SECRET: set, not set, set to the empty string
InitVerify ==
    /\ env \in {Env(s, Undefined) : s \in {Str(SenderSecret), Undefined, Str(<<>>)}}
    /\ statusMapping = DefaultStatusMapping
    /\ rateLimit = DefaultRateLimit
    /\ deliveries = [d \in Slots |-> NoDelivery]
    /\ remote = NoWrites
    /\ probe \in {[fn |-> "pending", req |-> r, result |-> Null] : r \in VerifyRequests}

\* verifyWebhookSignature(req)
ProbeVerifyWebhookSignature ==
    /\ probe.fn = "pending"
    /\ probe' = [probe EXCEPT !.fn = "verifyWebhookSignature",
                              !.result = verifyWebhookSignature(probe.req)]
    /\ UNCHANGED <<env, statusMapping, rateLimit, deliveries, remote>>

NextVerify == ProbeVerifyWebhookSignature

SpecVerify == InitVerify /\ [][NextVerify]_vars

\* JSON.stringify({"a":1}), written out
ExampleSerialized == <<"{", "\"", "a", "\"", ":", "1", "}">>

\* C13: with a secret configured a request is accepted exactly when its
\* authorization header is the hex HMAC-SHA-256 of the serialized body keyed by
\* the secret, so a missing header and any other string are rejected; with no
\* secret every request is accepted; the verifier answers true or false for
\* every request.
C13_SignatureVerification ==
    probe.fn = "verifyWebhookSignature" =>
        LET secret == env.MONDAY_SIGNING_SECRET
            configured == secret.type = "string" /\ secret.chars # <<>>
            supplied == probe.req.authorization
        IN  /\ probe.result \in BOOLEAN
            /\ configured =>
                  (probe.result <=>
                     /\ supplied.type = "string"
                     /\ supplied.chars =
                           HmacSha256Hex(secret.chars, stringify(probe.req.body)))
            /\ ~configured => probe.result
            /\ (secret = Str(<<"s3cr3t">>) /\ probe.req.body = ExampleBody) =>
                  (probe.result <=>
                     supplied = Str(<<"hmac-sha256(", "s3cr3t", ";">>
                                    \o ExampleSerialized \o <<")">>))

\* the body of the example, with the digest under the secret, was accepted
C13_Witness ==
    /\ probe.fn = "verifyWebhookSignature"
    /\ env.MONDAY_SIGNING_SECRET = Str(<<"s3cr3t">>)
    /\ probe.req.body = ExampleBody
    /\ probe.req.authorization.type = "string"
    /\ probe.result = TRUE

(***************************************************************************)
(* parseFormulaValue over formatted numerals and other values              *)
(***************************************************************************)
\* the formatting characters and the spaces put into and around one string
MaxMarks == 2

\* decimal numerals, each with the number it denotes
Numerals ==
    {[chars |-> <<"1", "2", "3", "4", ".", "5">>, number |-> Dec(12345, 1)],
     [chars |-> <<"8", "5">>, number |-> Num(85)],
     [chars |-> <<"-", "5">>, number |-> Num(-5)],
     [chars |-> <<"0", ".", "5", "0">>, number |-> Dec(5, 1)],
     [chars |-> <<".", "5">>, number |-> Dec(5, 1)],
     [chars |-> <<"+", "7">>, number |-> Num(7)]}

EmptyArray == [type |-> "object", length |-> Num(0)]

\* values that are neither a number nor a numeric string, and NaN
NonNumerics ==
    {Null, Undefined, EmptyObject, EmptyArray, NaN,
     [type |-> "boolean", b |-> TRUE], [type |-> "boolean", b |-> FALSE],
     Str(<<"a", "b", "c">>), Str(<<>>), Str(<<"1", "2", "a", "b", "c">>)}

Numbers == {Num(0), Num(150), Dec(-25, 1)}

InitParse ==
    /\ env = Env(Undefined, Undefined)
    /\ statusMapping = DefaultStatusMapping
    /\ rateLimit = DefaultRateLimit
    /\ deliveries = [d \in Slots |-> NoDelivery]
    /\ remote = NoWrites
    /\ probe \in
          {[fn |-> "pending", value |-> Str(n.chars), numeral |-> n.number, marks |-> 0,
            result |-> Null] : n \in Numerals}
          \cup {[fn |-> "pending", value |-> v, numeral |-> Null, marks |-> 0,
                 result |-> Null] : v \in NonNumerics \cup Numbers}

\* a thousands separator, a currency symbol or a percent sign at position i
Decorate(i, c) ==
    /\ probe.fn = "pending"
    /\ probe.value.type = "string"
    /\ probe.marks < MaxMarks
    /\ i \in 0 .. Len(probe.value.chars)
    /\ LET chars == probe.value.chars
       IN  probe' = [probe EXCEPT !.marks = @ + 1,
                         !.value = Str(SubSeq(chars, 1, i) \o <<c>>
                                       \o SubSeq(chars, i + 1, Len(chars)))]
    /\ UNCHANGED <<env, statusMapping, rateLimit, deliveries, remote>>

\* a space before or after the string
Pad(before) ==
    /\ probe.fn = "pending"
    /\ probe.value.type = "string"
    /\ probe.marks < MaxMarks
    /\ probe' = [probe EXCEPT !.marks = @ + 1,
                     !.value = Str(IF before THEN <<" ">> \o probe.value.chars
                                   ELSE probe.value.chars \o <<" ">>)]
    /\ UNCHANGED <<env, statusMapping, rateLimit, deliveries, remote>>

\* parseFormulaValue(value)
ProbeParseFormulaValue ==
    /\ probe.fn = "pending"
    /\ probe' = [probe EXCEPT !.fn = "parseFormulaValue",
                              !.result = parseFormulaValue(probe.value)]
    /\ UNCHANGED <<env, statusMapping, rateLimit, deliveries, remote>>

NextParse ==
    \/ \E i \in 0 .. 6 + MaxMarks, c \in {",", "$", "%"} : Decorate(i, c)
    \/ \E before \in BOOLEAN : Pad(before)
    \/ ProbeParseFormulaValue

SpecParse == InitParse /\ [][NextParse]_vars

\* C14: a numeral with thousands separators, currency symbols and percent signs
\* put into it, at any positions and in any number, and spaces around it, is
\* parsed to the number the numeral denotes; "1,234.5%" gives 1234.5 and "85%"
\* gives 85.
C14_FormattedNumerals ==
    (probe.fn = "parseFormulaValue" /\ probe.numeral # Null) =>
        /\ probe.result = probe.numeral
        /\ probe.value = Str(<<"1", ",", "2", "3", "4", ".", "5", "%">>)
              => probe.result = Dec(12345, 1)
        /\ probe.value = Str(<<"8", "5", "%">>) => probe.result = Num(85)

\* the numeral 1234.5 with a currency symbol before it and a separator in it
C14_Witness ==
    /\ probe.fn = "parseFormulaValue"
    /\ probe.value = Str(<<"$", "1", ",", "2", "3", "4", ".", "5">>)
    /\ probe.result = Dec(12345, 1)

\* C15: parseFormulaValue returns null for every value that is neither a number
\* nor a numeric string (null, undefined, objects, booleans, arrays, strings
\* that are not numerals, the empty string) and for NaN, and returns every
\* other number unchanged.
C15_NonNumericIsNull ==
    (probe.fn = "parseFormulaValue" /\ probe.numeral = Null) =>
        probe.result = IF probe.value.type = "number" /\ ~probe.value.nan
                       THEN probe.value ELSE Null

(***************************************************************************)
(* Deliveries in flight at the same time                                   *)
(***************************************************************************)
\* one delivery more than MaxDeliveries, each with the slot of its change event
RaceSlots == 1 .. 2 * (MaxDeliveries + 1)

\* two changes of the formula column of one item, a change of another column
\* and a request that is not signed
RaceRequests ==
    {r \in Requests :
        \/ r.authorization = Undefined /\ r.body = EmptyObject
        \/ /\ r.authorization = Str(HmacSha256Hex(SenderSecret, stringify(r.body)))
           /\ r.body \in {Payload(Event(Board, Item, Undefined, Formula, v), Undefined) :
                              v \in {Str(<<"8", "5", "%">>), Num(150)}}
                         \cup {Payload(Event(Board, Item, Undefined, Str(<<"text">>),
                                             Str(<<"8", "5", "%">>)), Undefined)}}

\* the update is carried out, rate limited or fails
RaceResponses ==
    {r \in Responses : r.body = "data"}

InitRace ==
    /\ env = Env(Str(SenderSecret), Undefined)
    /\ statusMapping = DefaultStatusMapping
    /\ rateLimit = DefaultRateLimit
    /\ deliveries = [d \in RaceSlots |-> NoDelivery]
    /\ remote = NoWrites
    /\ probe = NoProbe

NextRace ==
    \/ \E d \in External, req \in RaceRequests : Webhook(d, req)
    \/ \E d \in External : StatusChangeWebhook(d)
    \/ \E d \in Deliveries : Process(d)
    \/ \E d \in Deliveries, response \in RaceResponses : FetchSettles(d, response)
    \/ \E d \in Deliveries : SleepElapses(d)

SpecRace == InitRace /\ [][NextRace]_vars

\* the delivery's update has just been carried out by the remote API
JustApplied(d) ==
    deliveries[d].outcome # "updated" /\ deliveries'[d].outcome = "updated"

\* C16: the tasks of the deliveries are not ordered: whatever the state of the
\* other deliveries, a scheduled task can start, a request in flight can
\* settle with any response and a sleep before a retry can end; the status of
\* the item is the index of the update carried out last and changes with no
\* other step.
C16_LastWriteWins ==
    /\ [](\A d \in Deliveries :
            /\ deliveries[d].stage = "scheduled" => ENABLED Process(d)
            /\ deliveries[d].stage = "fetching" =>
                    \A response \in RaceResponses : ENABLED FetchSettles(d, response)
            /\ deliveries[d].stage = "sleeping" => ENABLED SleepElapses(d))
    /\ [][(\A d \in Deliveries :
               JustApplied(d) => remote'.status = deliveries[d].calls[1].statusIndex)
           /\ (remote'.status # remote.status => \E d \in Deliveries : JustApplied(d))]_vars

\* the update of the earlier delivery was rate limited and carried out after the
\* update of the later one: the item has the status of the earlier value
C16_Witness ==
    \E d, e \in External :
        /\ d < e
        /\ deliveries[d].outcome = "updated" /\ deliveries[e].outcome = "updated"
        /\ deliveries[d].retryCount > 0
        /\ deliveries[e].retryCount = 0
        /\ remote.status = deliveries[d].calls[1].statusIndex
        /\ remote.status # deliveries[e].calls[1].statusIndex
        /\ remote.status # mapValueToStatus(parseFormulaValue(deliveries[e].eventData.value)).index

\* C17: a step changes the record of one delivery only; the retryCount of a
\* delivery starts at 0 with its first request and counts the 429 responses
\* the delivery itself was given; a delivery that has ended, failed or not, is
\* not taken up again; and two deliveries of the same request get the same
\* response, the same event data and the same update arguments, whatever else is
\* in flight or has completed.
C17_DeliveriesAreIndependent ==
    [][/\ \A d, e \in Deliveries :
             (d # e /\ deliveries'[d] # deliveries[d]) => deliveries'[e] = deliveries[e]
       /\ \A d \in Deliveries :
             LET old == deliveries[d]
                 new == deliveries'[d]
             IN  /\ new.retryCount =
                       Len(new.delays) - (IF new.stage = "sleeping" THEN 1 ELSE 0)
                 /\ (old.stage = "scheduled" /\ new.stage = "fetching")
                    => new.retryCount = 0 /\ new.sent = 1
                 /\ new.sent > 0 => new.sent = new.retryCount + 1
                 /\ old.stage \in {"responded", "done"} => new = old
       /\ \A d, e \in Deliveries :
             (/\ deliveries'[d].stage # "none" /\ deliveries'[e].stage # "none"
              /\ deliveries'[d].body = deliveries'[e].body
              /\ deliveries'[d].verified = deliveries'[e].verified)
             => /\ deliveries'[d].response = deliveries'[e].response
                /\ deliveries'[d].eventData = deliveries'[e].eventData
                /\ (deliveries'[d].calls # <<>> /\ deliveries'[e].calls # <<>>)
                   => deliveries'[d].calls = deliveries'[e].calls]_vars

\* a delivery was rate limited twice and failed; a later delivery of the same
\* request sends its first request with a retryCount of 0
C17_Witness ==
    \E d, e \in External :
        /\ d < e
        /\ deliveries[d].stage = "done"
        /\ deliveries[d].outcome = "failed"
        /\ deliveries[d].retryCount = 2
        /\ deliveries[e].body = deliveries[d].body
        /\ deliveries[e].stage = "fetching"
        /\ deliveries[e].retryCount = 0
        /\ deliveries[e].sent = 1

(***************************************************************************)
(* Properties of the handler's paths and of the client's checks            *)
(***************************************************************************)
HandlerResponses ==
    {Response(401, "Invalid signature"), Response(400, "Invalid payload"),
     Response(400, "Invalid event data"), Ignored, Received,
     Response(500, "Internal server error")}

\* C18: a request that has arrived has one response, one of the six of the
\* handler; a response that was sent is never followed by another; and a task
\* is scheduled, started or finished only for a request answered 200 'Webhook
\* received'.
C18_ExactlyOneResponse ==
    [][\A d \in Deliveries :
          LET old == deliveries[d]
              new == deliveries'[d]
          IN  /\ new.stage # "none" => new.response \in HandlerResponses
              /\ new.stage = "none" => new.response = NoResponse
              /\ old.response # NoResponse => new.response = old.response
              /\ new.response # Received =>
                    /\ new.stage \in {"none", "responded"}
                    /\ new.calls = <<>> /\ new.sent = 0 /\ new.outcome = "none"
              /\ new.response = Received => new.stage \notin {"none", "responded"}]_vars

\* the task of a delivery failed on an HTTP error and the delivery has the one
\* response the handler sent
C18_Witness ==
    \E d \in Deliveries :
        /\ deliveries[d].stage = "done"
        /\ deliveries[d].error = "HttpError"
        /\ deliveries[d].response = Received

\* the event has none of the members extractEventData reads
NoExpectedFields(event) ==
    \A f \in {"boardId", "pulseId", "itemId", "columnType", "value"} :
        Field(event, f) = Undefined

\* C19: the event data of a verified request with a valid payload is never
\* null and no request is answered 400 'Invalid event data'; a payload whose
\* truthy event has none of the expected members is answered 200 'Webhook
\* received' and its task is scheduled.
C19_ExtractNeverFails ==
    \A d \in Deliveries :
        Arrived(d) =>
            /\ deliveries[d].response # Response(400, "Invalid event data")
            /\ (deliveries[d].verified /\ WellFormed(deliveries[d].body))
               => /\ deliveries[d].eventData # Null
                  /\ deliveries[d].response \in {Ignored, Received}
            /\ (/\ deliveries[d].verified
                /\ WellFormed(deliveries[d].body)
                /\ NoExpectedFields(deliveries[d].body.event)
                /\ Field(deliveries[d].body, "boardId") = Undefined)
               => /\ deliveries[d].response = Received
                  /\ deliveries[d].stage # "responded"
                  /\ deliveries[d].eventData.itemId = Undefined
                  /\ deliveries[d].eventData.boardId = Undefined

\* the payload {"event":{}} was answered 200 'Webhook received' and its task
\* ended with no value to parse
C19_Witness ==
    \E d \in Deliveries :
        /\ deliveries[d].verified
        /\ deliveries[d].body = Payload(EmptyObject, Undefined)
        /\ deliveries[d].response = Received
        /\ deliveries[d].stage = "done"
        /\ deliveries[d].outcome = "unparseable"

\* C20: a 429 response whose body carries error entries is retried while
\* retryCount < maxRetries and ends the call with the rate-limit error at
\* retryCount = maxRetries, never with the API error; an update is reported as
\* carried out only after a response that is not a 429, carries no errors and
\* is an HTTP success.
C20_RateLimitBeforeErrors ==
    \A d \in Deliveries :
        LET r == deliveries[d].lastResponse
        IN  /\ (r.status = 429 /\ r.body = "errors")
               => /\ deliveries[d].error # "MondayApiError"
                  /\ deliveries[d].stage \in {"sleeping", "fetching", "done"}
                  /\ deliveries[d].stage = "sleeping" =>
                        deliveries[d].retryCount < rateLimit.maxRetries
                  /\ deliveries[d].stage = "done" =>
                        /\ deliveries[d].outcome = "failed"
                        /\ deliveries[d].error = "RateLimitExceeded"
                        /\ deliveries[d].retryCount = rateLimit.maxRetries
            /\ deliveries[d].outcome = "updated"
               => /\ r.kind = "http"
                  /\ r.status # 429
                  /\ r.body # "errors"
                  /\ r.status >= 200 /\ r.status < 300

\* a call answered 429 with error entries every time ended with the rate-limit
\* error after maxRetries + 1 requests
C20_Witness ==
    \E d \in Deliveries :
        /\ deliveries[d].stage = "done"
        /\ deliveries[d].lastResponse.status = 429
        /\ deliveries[d].lastResponse.body = "errors"
        /\ deliveries[d].error = "RateLimitExceeded"
        /\ Len(deliveries[d].delays) = maxRetries
        /\ deliveries[d].sent = maxRetries + 1

\* the request's event names no board, in the event or beside it, or no item
LacksIds(body) ==
    \/ /\ Field(body.event, "boardId") = Undefined
       /\ Field(body, "boardId") = Undefined
    \/ /\ Field(body.event, "pulseId") = Undefined
       /\ Field(body.event, "itemId") = Undefined

\* the event's value parses to a number that a rule of the configuration maps
Mapped(body) ==
    LET number == parseFormulaValue(Field(body.event, "value"))
    IN  number # Null /\ mapValueToStatus(number) # Null

\* C21: an eligible event whose value parses and maps but which names no board
\* or no item is answered 200 'Webhook received'; its task ends in the catch of
\* processWebhookEvent with the TypeError of updateStatusColumn, nothing is
\* thrown out of the task, and no request is ever sent for the delivery.
C21_MissingIdsFailBeforeRequest ==
    \A d \in Deliveries :
        (/\ Arrived(d)
         /\ Eligible(deliveries[d])
         /\ Mapped(deliveries[d].body)
         /\ LacksIds(deliveries[d].body))
        => /\ deliveries[d].response = Received
           /\ deliveries[d].stage \in {"scheduled", "done"}
           /\ deliveries[d].sent = 0
           /\ deliveries[d].lastResponse = NoReply
           /\ deliveries[d].stage = "done" =>
                 /\ deliveries[d].outcome = "failed"
                 /\ deliveries[d].error = "TypeError"
                 /\ ~deliveries[d].rejected

\* the task of an event with a board and no item ended with the TypeError
C21_Witness ==
    \E d \in Deliveries :
        /\ deliveries[d].stage = "done"
        /\ deliveries[d].error = "TypeError"
        /\ deliveries[d].sent = 0
        /\ Field(deliveries[d].body.event, "boardId") = Board
        /\ deliveries[d].eventData.itemId = Undefined
        /\ deliveries[d].response = Received

(***************************************************************************)
(* Termination of the task                                                 *)
(***************************************************************************)
\* the event loop runs every setImmediate callback, the remote API answers
\* every request and every sleep ends
Fairness ==
    \A d \in Slots :
        /\ WF_vars(Process(d))
        /\ WF_vars(\E response \in Responses : FetchSettles(d, response))
        /\ WF_vars(SleepElapses(d))

\* the configuration under which all four ends of the task can be reached: the
\* secret is set and the rules have a gap
InitLive ==
    /\ env = Env(Str(SenderSecret), Str(<<"status_1">>))
    /\ statusMapping = GappedStatusMapping
    /\ rateLimit = DefaultRateLimit
    /\ deliveries = [d \in Slots |-> NoDelivery]
    /\ remote = NoWrites
    /\ probe = NoProbe

SpecLive == InitLive /\ [][Next]_vars /\ Fairness

\* C22: the task of every accepted delivery comes to its end, with one of the
\* outcomes value unparseable, no status match, update succeeded and update
\* failed, whatever responses the remote API gives; a task that has ended has
\* one of the four.
C22_TaskTerminates ==
    /\ \A d \in Slots :
          deliveries[d].stage = "scheduled"
          ~> (/\ deliveries[d].stage = "done"
              /\ deliveries[d].outcome \in {"unparseable", "nomatch", "updated", "failed"})
    /\ [](\A d \in Slots :
            deliveries[d].stage = "done"
            <=> deliveries[d].outcome \in {"unparseable", "nomatch", "updated", "failed"})

\* an update that was rate limited twice and then carried out, and the change
\* event of its write
C22_Witness ==
    \E d \in External :
        /\ deliveries[d].stage = "done"
        /\ deliveries[d].outcome = "updated"
        /\ deliveries[d].retryCount = 2
        /\ Len(deliveries[d].delays) = 2
        /\ deliveries[ChangeEventOf(d)].stage = "responded"

====
